---------------------------- MODULE Spec2Model ----------------------------
(* Model of docs/src/style.py of carta-controller-v2:                      *)
(*                                                                         *)
(*   1  from pygments.styles.default import DefaultStyle                   *)
(*   2  from pygments_ansi_color import color_tokens                       *)
(*   4  class DefaultAnsiStyle(DefaultStyle):                              *)
(*   5      styles = dict(DefaultStyle.styles)                             *)
(*   6      styles.update(color_tokens())                                  *)
(*                                                                         *)
(* The module body is executed once, top to bottom, by whoever imports it. *)
(* Dictionaries are objects on a heap and names hold references to them,   *)
(* so that copying and aliasing are different things in the model as they  *)
(* are in Python.  dict.update stores the overlay's items one at a time.   *)
EXTENDS Naturals, FiniteSets, Sequences, TLC

\* ------------------------------------------------------------------ bounds
NumKeys == 3
NumVals == 2

TokenNames == <<"keyword", "comment", "ansi-red", "ansi-green", "string">>
StyleNames == <<"bold blue", "bold red", "italic gray", "red">>

Keys   == {TokenNames[i] : i \in 1..NumKeys}
Values == {StyleNames[i] : i \in 1..NumVals}

\* A StyleMapping: token-kind identifier -> style descriptor, keys unique.
Mappings == UNION {[D -> Values] : D \in SUBSET Keys}
EmptyDict == [k \in {} |-> "bold blue"]

\* ------------------------------------------------------------ heap objects
BaseObj    == "DefaultStyle.styles"   \* the dict the base class holds
OverlayObj == "color_tokens()"        \* the dict the call on line 6 returns
NewObj     == "dict(...)"             \* the dict line 5 allocates
NoRef      == "unbound"

NoError == "none"
Missing == "<KeyError>"

VARIABLES
    baseProvider,   \* "ok" | "missing" (line 1 cannot import) | "malformed" (no .styles)
    tokenProvider,  \* "ok" | "missing" (line 2 cannot import) | "raises" | "malformed"
    tokensExc,      \* the exception color_tokens() raises when tokenProvider = "raises"
    base0,          \* contents of DefaultStyle.styles before the module runs
    overlay0,       \* contents of the mapping color_tokens() returns
    heap,           \* allocated dict objects -> their contents
    styles,         \* the name `styles` in the class body: a reference
    arg,            \* the evaluated argument of styles.update(...): a reference
    todo,           \* keys of the argument dict.update has not stored yet
    pc,             \* position in the module body
    exposed,        \* DefaultAnsiStyle.styles as consumers see it: a reference
    raised,         \* the exception a collaborator raised
    error,          \* the exception that reached the importer of the module
    lastRead,       \* what the renderer last read from the exposed mapping
    atConstruction, \* history: contents of the exposed dict when the class was created
    nBuilt,         \* history: how many times the class was created
    written         \* history: a consumer has assigned into the exposed dict

vars == <<baseProvider, tokenProvider, tokensExc, base0, overlay0, heap, styles,
          arg, todo, pc, exposed, raised, error, lastRead, atConstruction,
          nBuilt, written>>

inputs == <<baseProvider, tokenProvider, tokensExc, base0, overlay0>>
hist   == <<atConstruction, nBuilt, written>>

\* --------------------------------------------------------- dict primitives
\* dict(d): a new dict with the items of d.
DictCopyEmpty(d) == EmptyDict
DictCopy(d) == [k \in DOMAIN d |-> d[k]]

\* d[k] = v, as dict.update does for each item of its argument.
DictSetDefault(d, k, v) ==
    [x \in DOMAIN d \cup {k} |-> IF x \in DOMAIN d THEN d[x] ELSE v]
DictSetExisting(d, k, v) ==
    [x \in DOMAIN d |-> IF x = k THEN v ELSE d[x]]
DictSetConcat(d, k, v) ==
    [x \in DOMAIN d \cup {k} |->
        IF x = k THEN (IF k \in DOMAIN d THEN d[k] \o " " \o v ELSE v) ELSE d[x]]
DictSet(d, k, v) ==
    [x \in DOMAIN d \cup {k} |-> IF x = k THEN v ELSE d[x]]

\* d.update(o) restricted to the keys ks of o still to be stored.
RECURSIVE DictUpdate(_, _, _)
DictUpdate(d, o, ks) ==
    IF ks = {} THEN d
    ELSE LET k == CHOOSE x \in ks : TRUE
         IN  DictUpdate(DictSet(d, k, o[k]), o, ks \ {k})

\* Lines 5-6 as one function of the two mappings.
Merge(B, O) == DictUpdate(DictCopy(B), O, DOMAIN O)

\* The exception each failing collaborator raises.
BaseFailure(status) ==
    IF status = "missing" THEN "ModuleNotFoundError: pygments.styles.default"
    ELSE "AttributeError: styles"
Exceptions == {"RuntimeError", "OSError"}

\* -------------------------------------------------------------------- Init
Init ==
    /\ baseProvider \in {"ok", "missing", "malformed"}
    /\ tokenProvider \in {"ok", "missing", "raises", "malformed"}
    /\ tokensExc \in IF tokenProvider = "raises" THEN Exceptions ELSE {NoError}
    /\ base0 \in IF baseProvider = "ok" THEN Mappings ELSE {EmptyDict}
    /\ overlay0 \in IF tokenProvider \in {"ok", "malformed"} THEN Mappings
                    ELSE {EmptyDict}
    /\ heap = IF baseProvider = "ok" THEN (BaseObj :> base0) ELSE EmptyDict
    /\ styles = NoRef
    /\ arg = NoRef
    /\ todo = {}
    /\ pc = "L1"
    /\ exposed = NoRef
    /\ raised = NoError
    /\ error = NoError
    /\ lastRead = NoError
    /\ atConstruction = EmptyDict
    /\ nBuilt = 0
    /\ written = FALSE

\* An exception raised in the module body: nothing in the file catches it, so
\* the body stops and the importer gets that exception.
Raise(e) ==
    /\ pc' = "failed"
    /\ raised' = e
    /\ error' = e

\* ----------------------------------------------------------------- actions
\* line 1: from pygments.styles.default import DefaultStyle
ImportBase ==
    /\ pc = "L1"
    /\ IF baseProvider = "missing"
       THEN Raise(BaseFailure("missing"))
       ELSE pc' = "L2" /\ UNCHANGED <<raised, error>>
    /\ UNCHANGED <<inputs, heap, styles, arg, todo, exposed, lastRead, hist>>

\* line 2: from pygments_ansi_color import color_tokens
ImportTokens ==
    /\ pc = "L2"
    /\ IF tokenProvider = "missing"
       THEN Raise("ImportError: color_tokens")
       ELSE pc' = "L5" /\ UNCHANGED <<raised, error>>
    /\ UNCHANGED <<inputs, heap, styles, arg, todo, exposed, lastRead, hist>>

\* line 5: styles = dict(DefaultStyle.styles)
CopyBaseAlias ==
    /\ pc = "L5"
    /\ IF baseProvider = "malformed"
       THEN /\ Raise(BaseFailure("malformed"))
            /\ UNCHANGED <<heap, styles>>
       ELSE /\ styles' = BaseObj
            /\ pc' = "L6call"
            /\ UNCHANGED <<heap, raised, error>>
    /\ UNCHANGED <<inputs, arg, todo, exposed, lastRead, hist>>
CopyBase ==
    /\ pc = "L5"
    /\ IF baseProvider = "malformed"
       THEN /\ Raise(BaseFailure("malformed"))
            /\ UNCHANGED <<heap, styles>>
       ELSE /\ heap' = heap @@ (NewObj :> DictCopy(heap[BaseObj]))
            /\ styles' = NewObj
            /\ pc' = "L6call"
            /\ UNCHANGED <<raised, error>>
    /\ UNCHANGED <<inputs, arg, todo, exposed, lastRead, hist>>

\* line 6, the argument: color_tokens()
CallTokensSwallow ==
    /\ pc = "L6call"
    /\ heap' = heap @@ (OverlayObj :> (IF tokenProvider = "raises" THEN EmptyDict
                                        ELSE overlay0))
    /\ arg' = OverlayObj
    /\ todo' = IF tokenProvider = "raises" THEN {} ELSE DOMAIN overlay0
    /\ pc' = "L6update"
    /\ raised' = IF tokenProvider = "raises" THEN tokensExc ELSE raised
    /\ UNCHANGED <<inputs, styles, exposed, error, lastRead, hist>>
CallTokens ==
    /\ pc = "L6call"
    /\ IF tokenProvider = "raises"
       THEN /\ Raise(tokensExc)
            /\ UNCHANGED <<heap, arg, todo>>
       ELSE /\ heap' = heap @@ (OverlayObj :> overlay0)
            /\ arg' = OverlayObj
            /\ todo' = DOMAIN overlay0
            /\ pc' = "L6update"
            /\ UNCHANGED <<raised, error>>
    /\ UNCHANGED <<inputs, styles, exposed, lastRead, hist>>

\* line 6, the call: styles.update(arg) stores one item of arg into the dict
\* `styles` refers to.
UpdateStepStuck ==
    /\ pc = "L6update"
    /\ \E k \in todo :
          heap' = [heap EXCEPT ![styles] = DictSet(@, k, heap[arg][k])]
    /\ UNCHANGED <<inputs, styles, arg, todo, pc, exposed, raised, error,
                   lastRead, hist>>
UpdateStep ==
    /\ pc = "L6update"
    /\ \E k \in todo :
          /\ heap' = [heap EXCEPT ![styles] = DictSet(@, k, heap[arg][k])]
          /\ todo' = todo \ {k}
    /\ UNCHANGED <<inputs, styles, arg, pc, exposed, raised, error, lastRead,
                   hist>>

\* line 6, the call on an argument that is not a well-formed mapping: dict.update
\* raises at the item it cannot store, after storing the ones before it.
UpdateFail ==
    /\ pc = "L6update"
    /\ tokenProvider = "malformed"
    /\ Raise("TypeError: dict.update")
    /\ UNCHANGED <<inputs, heap, styles, arg, todo, exposed, lastRead, hist>>

\* line 6 returns, the class body ends.
UpdateDone ==
    /\ pc = "L6update"
    /\ todo = {}
    /\ tokenProvider # "malformed"
    /\ pc' = "L4bind"
    /\ UNCHANGED <<inputs, heap, styles, arg, todo, exposed, raised, error,
                   lastRead, hist>>

\* line 4: the class object is created from the body's namespace and bound to
\* the name DefaultAnsiStyle; its attribute `styles` is the object the body built.
CreateClassEarly ==
    /\ pc = "L6update"
    /\ exposed = NoRef
    /\ exposed' = styles
    /\ atConstruction' = heap[styles]
    /\ nBuilt' = nBuilt + 1
    /\ UNCHANGED <<inputs, heap, styles, arg, todo, pc, raised, error, lastRead,
                   written>>
CreateClass ==
    /\ pc = "L4bind"
    /\ exposed' = styles
    /\ atConstruction' = heap[styles]
    /\ nBuilt' = nBuilt + 1
    /\ pc' = "done"
    /\ UNCHANGED <<inputs, heap, styles, arg, todo, raised, error, lastRead,
                   written>>

ModuleNext ==
    \/ ImportBase
    \/ ImportTokens
    \/ CopyBase
    \/ CallTokens
    \/ UpdateStep
    \/ UpdateFail
    \/ UpdateDone
    \/ CreateClass

\* The renderer looks a token kind up in DefaultAnsiStyle.styles.
ConsumerRead ==
    /\ exposed # NoRef
    /\ \E k \in Keys :
          lastRead' = IF k \in DOMAIN heap[exposed] THEN heap[exposed][k]
                      ELSE Missing
    /\ UNCHANGED <<inputs, heap, styles, arg, todo, pc, exposed, raised, error,
                   hist>>

\* DefaultAnsiStyle.styles is an ordinary dict: whoever holds the class can
\* assign an item of it.
ConsumerWrite ==
    /\ exposed # NoRef
    /\ ~written
    /\ \E k \in Keys, v \in Values :
          heap' = [heap EXCEPT ![exposed] = DictSet(@, k, v)]
    /\ written' = TRUE
    /\ UNCHANGED <<inputs, styles, arg, todo, pc, exposed, raised, error,
                   lastRead, atConstruction, nBuilt>>

Next == ModuleNext \/ ConsumerRead

NextOpen == ModuleNext \/ ConsumerRead \/ ConsumerWrite

Spec == Init /\ [][Next]_vars

\* The body on well-formed collaborators: both imports succeed, color_tokens()
\* returns a mapping and dict.update accepts it.
InitWellFormed == Init /\ baseProvider = "ok" /\ tokenProvider = "ok"

BodyNext ==
    \/ ImportBase
    \/ ImportTokens
    \/ CopyBase
    \/ CallTokens
    \/ UpdateStep
    \/ UpdateDone
    \/ CreateClass

\* The body is straight-line synchronous code: once started it keeps running.
SpecFair == InitWellFormed /\ [][BodyNext]_vars /\ WF_vars(BodyNext)

\* Consumers that may also assign into the exposed dict.
SpecOpen == Init /\ [][NextOpen]_vars

\* ------------------------------------------------------------------ helpers
Exposed == heap[exposed]
Built == pc = "done"


\* The exception the importer must see for the given providers: that of the
\* first line of the body that fails.
FirstFailure ==
    IF baseProvider = "missing" THEN BaseFailure("missing")
    ELSE IF tokenProvider = "missing" THEN "ImportError: color_tokens"
    ELSE IF baseProvider = "malformed" THEN BaseFailure("malformed")
    ELSE IF tokenProvider = "raises" THEN tokensExc
    ELSE IF tokenProvider = "malformed" THEN "TypeError: dict.update"
    ELSE NoError

\* ------------------------------------------------------------------- claims

\* C1: overlay precedence. Once the class is built, every key of the overlay
\* is in the merged style and maps to the overlay's value, whether or not the
\* base had the key.
C1_OverlayWins ==
    Built => \A k \in DOMAIN overlay0 :
                k \in DOMAIN Exposed /\ Exposed[k] = overlay0[k]

C1_Witness ==
    /\ Built
    /\ \E k \in DOMAIN overlay0 \cap DOMAIN base0 : base0[k] # overlay0[k]
    /\ DOMAIN overlay0 \ DOMAIN base0 # {}

\* C2: the key set of the merged style is exactly keys(B) union keys(O).
C2_KeySet ==
    Built => DOMAIN Exposed = DOMAIN base0 \cup DOMAIN overlay0

C2_Witness ==
    /\ Built
    /\ DOMAIN base0 \ DOMAIN overlay0 # {}
    /\ DOMAIN overlay0 \ DOMAIN base0 # {}
    /\ Keys \ (DOMAIN base0 \cup DOMAIN overlay0) # {}

\* C3: a key of the base that the overlay does not name keeps the base's value.
C3_BasePreserved ==
    Built => \A k \in DOMAIN base0 \ DOMAIN overlay0 :
                k \in DOMAIN Exposed /\ Exposed[k] = base0[k]

C3_Witness ==
    /\ Built
    /\ DOMAIN base0 \ DOMAIN overlay0 # {}
    /\ DOMAIN overlay0 \cap DOMAIN base0 # {}
    /\ Exposed # base0

\* C4: the merge leaves its inputs alone. At every point of the body, the
\* update steps included, the base class's dict and the overlay dict hold what
\* they held before, and the dict being built is neither of them.
C4_InputsUntouched ==
    /\ BaseObj \in DOMAIN heap => heap[BaseObj] = base0
    /\ OverlayObj \in DOMAIN heap => heap[OverlayObj] = overlay0
    /\ styles \notin {BaseObj, OverlayObj}
    /\ exposed \notin {BaseObj, OverlayObj}

C4_Witness ==
    /\ Built
    /\ Exposed # base0
    /\ Exposed # overlay0
    /\ heap[BaseObj] = base0
    /\ heap[OverlayObj] = overlay0

\* C5: idempotence. Merging the overlay onto the merged style again gives the
\* merged style.
C5_Idempotent ==
    Built => Merge(Exposed, overlay0) = Exposed

C5_Witness ==
    /\ Built
    /\ overlay0 # EmptyDict
    /\ Exposed # base0
    /\ Exposed # overlay0

\* C6: the empty overlay is the identity. With no overlay item the merged
\* style equals the base.
C6_EmptyOverlay ==
    (Built /\ overlay0 = EmptyDict) => Exposed = base0

C6_Witness ==
    /\ Built
    /\ overlay0 = EmptyDict
    /\ DOMAIN base0 = Keys

\* C7: empty base. With no base item the merged style equals the overlay.
C7_EmptyBase ==
    (Built /\ base0 = EmptyDict) => Exposed = overlay0

C7_Witness ==
    /\ Built
    /\ base0 = EmptyDict
    /\ DOMAIN overlay0 = Keys

\* C8 as stated: in every state after construction, whatever consumers do, the
\* exposed mapping equals the value computed at construction.
C8_Original ==
    exposed # NoRef => Exposed = atConstruction

\* C8 as amended: the class is created at most once, the module itself never
\* changes the exposed mapping after creating it, and the mapping equals the
\* value computed at construction for as long as no consumer has modified it.
C8_Amended ==
    /\ nBuilt <= 1
    /\ exposed # NoRef =>
          /\ nBuilt = 1
          /\ atConstruction = Merge(base0, overlay0)
          /\ ~written => Exposed = atConstruction

C8_Witness ==
    /\ Built
    /\ nBuilt = 1
    /\ ~written
    /\ lastRead \in Values
    /\ atConstruction # base0

\* C9: a failure to obtain either input reaches the importer as the very
\* exception the collaborator raised, and no class, so no merged or partly
\* merged style, is exposed.
C9_FailurePropagates ==
    /\ pc = "failed" => (error = raised /\ error = FirstFailure /\ error # NoError)
    /\ pc # "failed" => error = NoError
    /\ FirstFailure # NoError => exposed = NoRef
    /\ (FirstFailure # NoError /\ pc \notin {"L1", "L2", "L5", "L6call", "L6update"})
          => pc = "failed"

C9_Witness ==
    /\ pc = "failed"
    /\ tokenProvider = "raises"
    /\ error = tokensExc
    /\ NewObj \in DOMAIN heap
    /\ exposed = NoRef

\* C10: with both providers well formed the body always has a next step until
\* the class is built, and the class is eventually built.
C10_Completes ==
    /\ []((baseProvider = "ok" /\ tokenProvider = "ok" /\ ~Built)
             => ENABLED BodyNext)
    /\ (baseProvider = "ok" /\ tokenProvider = "ok") ~> Built

C10_Witness ==
    /\ Built
    /\ DOMAIN base0 = Keys
    /\ DOMAIN overlay0 = Keys
    /\ Exposed = overlay0

=============================================================================
